---- MODULE Spec2Model ----
(***************************************************************************)
(* A model of kalshi_to_supabase.py: the retrying HTTP client, the         *)
(* paginated trade fetch, the market and event metadata lookups, the sport *)
(* classifier, the daily aggregation and the upsert loop of main().        *)
(*                                                                         *)
(* Text is a sequence of one-character strings, so that the regular        *)
(* expressions of the source (alternations of literals, searched           *)
(* case-insensitively) are computed as substring searches.                 *)
(***************************************************************************)
EXTENDS Integers, Sequences, FiniteSets, TLC

(***************************************************************************)
(* Text and the regular expressions (lines 53-72)                          *)
(***************************************************************************)

UpperCase ==
    <<"A", "B", "C", "D", "E", "F", "G", "H", "I", "J", "K", "L", "M",
      "N", "O", "P", "Q", "R", "S", "T", "U", "V", "W", "X", "Y", "Z">>

LowerCase ==
    <<"a", "b", "c", "d", "e", "f", "g", "h", "i", "j", "k", "l", "m",
      "n", "o", "p", "q", "r", "s", "t", "u", "v", "w", "x", "y", "z">>

\* re.IGNORECASE: a character is compared by its lower-case form.
LowerOf == [i \in 1..26 |-> LowerCase[i]]
UpperIndex == [c \in { UpperCase[i] : i \in 1..26 } |->
                 CHOOSE i \in 1..26 : UpperCase[i] = c]
Lower(c) == IF c \in DOMAIN UpperIndex THEN LowerOf[UpperIndex[c]] ELSE c

\* One literal alternative found at some offset of the field.
Contains(field, lit) ==
    \E i \in 1..(Len(field) - Len(lit) + 1) :
        \A j \in 1..Len(lit) : Lower(field[i + j - 1]) = Lower(lit[j])

\* REGEX.search(field) for a pattern that is an alternation of literals.
Search(regex, field) == \E lit \in regex : Contains(field, lit)

NFL_REGEX ==
    { <<"n", "f", "l">> }
MLB_REGEX ==
    { <<"m", "l", "b">> }
WNBA_REGEX ==
    { <<"w", "n", "b", "a">> }
NBA_REGEX ==
    { <<"n", "b", "a">> }
NHL_REGEX ==
    { <<"n", "h", "l">> }
SOCCER_REGEX ==
    { <<"l", "a", "l", "i", "g", "a">>,
      <<"b", "u", "n", "d", "e", "s", "l", "i", "g", "a">>,
      <<"u", "c", "l">>,
      <<"e", "p", "l">>,
      <<"m", "l", "s">>,
      <<"l", "i", "g", "u", "e", "1">>,
      <<"s", "e", "r", "i", "e", "a">>,
      <<"f", "i", "f", "a">> }
GOLF_REGEX ==
    { <<"p", "g", "a">> }
MOTORSPORT_REGEX ==
    { <<"f", "1">>,
      <<"n", "a", "s", "c", "a", "r">> }
TENNIS_REGEX ==
    { <<"a", "t", "p">>,
      <<"w", "t", "a">>,
      <<"m", "e", "n", "s", "i", "n", "g", "l", "e", "s">>,
      <<"w", "o", "m", "e", "n", "s", "i", "n", "g", "l", "e", "s">> }
NCAAM_REGEX ==
    { <<"k", "x", "m", "a", "r", "m", "a", "d">>,
      <<"n", "c", "a", "a", "m">>,
      <<"n", "c", "a", "a", "b">> }
NCAAW_REGEX ==
    { <<"k", "x", "w", "m", "a", "r", "m", "a", "d">>,
      <<"n", "c", "a", "a", "w">> }
NCAAF_REGEX ==
    { <<"n", "c", "a", "a", "f">> }
COMBAT_REGEX ==
    { <<"u", "f", "c">>,
      <<"b", "o", "x", "i", "n", "g">> }

\* The keys of a row's per-sport volume fields, in the order of the source.
SPORT_CATEGORIES ==
    <<"nfl", "mlb", "nba", "wnba", "nhl", "soccer", "golf", "motorsport",
      "tennis", "ncaam", "ncaaw", "ncaaf", "combat">>

SportTags == { SPORT_CATEGORIES[i] : i \in 1..Len(SPORT_CATEGORIES) }

(***************************************************************************)
(* classify_sport (lines 336-366)                                          *)
(***************************************************************************)

\* A plausible slip: the basketball test made before the women's one.
ClassifyTestsNbaFirst(field) ==
    IF Search(NFL_REGEX, field) THEN "nfl"
    ELSE IF Search(MLB_REGEX, field) THEN "mlb"
    ELSE IF Search(NBA_REGEX, field) THEN "nba"
    ELSE IF Search(WNBA_REGEX, field) THEN "wnba"
    ELSE IF Search(NHL_REGEX, field) THEN "nhl"
    ELSE IF Search(SOCCER_REGEX, field) THEN "soccer"
    ELSE IF Search(GOLF_REGEX, field) THEN "golf"
    ELSE IF Search(MOTORSPORT_REGEX, field) THEN "motorsport"
    ELSE IF Search(TENNIS_REGEX, field) THEN "tennis"
    ELSE IF Search(NCAAM_REGEX, field) THEN "ncaam"
    ELSE IF Search(NCAAW_REGEX, field) THEN "ncaaw"
    ELSE IF Search(NCAAF_REGEX, field) THEN "ncaaf"
    ELSE IF Search(COMBAT_REGEX, field) THEN "combat"
    ELSE ""

\* The tests made on one field, in the order of the source; "" when none
\* matches.
ClassifyTests(field) ==
    IF Search(WNBA_REGEX, field) THEN "wnba"
    ELSE IF Search(NFL_REGEX, field) THEN "nfl"
    ELSE IF Search(MLB_REGEX, field) THEN "mlb"
    ELSE IF Search(NBA_REGEX, field) THEN "nba"
    ELSE IF Search(NHL_REGEX, field) THEN "nhl"
    ELSE IF Search(SOCCER_REGEX, field) THEN "soccer"
    ELSE IF Search(GOLF_REGEX, field) THEN "golf"
    ELSE IF Search(MOTORSPORT_REGEX, field) THEN "motorsport"
    ELSE IF Search(TENNIS_REGEX, field) THEN "tennis"
    ELSE IF Search(NCAAM_REGEX, field) THEN "ncaam"
    ELSE IF Search(NCAAW_REGEX, field) THEN "ncaaw"
    ELSE IF Search(NCAAF_REGEX, field) THEN "ncaaf"
    ELSE IF Search(COMBAT_REGEX, field) THEN "combat"
    ELSE ""

\* The texts of the pipeline's markets and events, tested once.
KnownTexts ==
    { <<"K", "X", "N", "F", "L", "G", "A", "M", "E">>,
      <<"K", "X", "O", "P", "E", "N">>,
      <<"K", "X", "N", "F", "L", "G", "A", "M", "E", "-", "2", "5">>,
      <<"K", "X", "O", "P", "E", "N", "-", "2", "5">>,
      <<"S", "p", "o", "r", "t", "s">>,
      <<"P", "G", "A", " ", "T", "o", "u", "r">> }
KnownSport == [f \in KnownTexts |-> ClassifyTests(f)]
ClassifyField(field) ==
    IF field \in KnownTexts THEN KnownSport[field] ELSE ClassifyTests(field)

\* The loop over (ticker, category, event_ticker): an empty field is
\* skipped, a field in which no test matches falls through to the next.
RECURSIVE ClassifyFrom(_, _)
ClassifyFrom(fields, i) ==
    IF i > Len(fields) THEN ""
    ELSE IF fields[i] = <<>> THEN ClassifyFrom(fields, i + 1)
    ELSE IF ClassifyField(fields[i]) # "" THEN ClassifyField(fields[i])
    ELSE ClassifyFrom(fields, i + 1)

classify_sport(ticker, category, event_ticker) ==
    ClassifyFrom(<<ticker, category, event_ticker>>, 1)

(***************************************************************************)
(* Bounds and the data the environment draws from                          *)
(***************************************************************************)

\* Days of the lookback window, numbered in ascending date order.
NumDays == 2
\* Most trades the trades endpoint holds for the window.
MaxTrades == 2
\* Most pages the trades endpoint serves for one fetch.
MaxPages == 2
\* Most vocabulary words concatenated into a classified ticker.
MaxWords == 2

MAX_RETRIES == 3
RETRY_BASE_DELAY == 5

None == <<"<", "N", "o", "n", "e", ">">>
Window == 1..NumDays

T_NFL == <<"K", "X", "N", "F", "L", "G", "A", "M", "E">>
T_GOLF == <<"K", "X", "O", "P", "E", "N">>
E_NFL == <<"K", "X", "N", "F", "L", "G", "A", "M", "E", "-", "2", "5">>
E_GOLF == <<"K", "X", "O", "P", "E", "N", "-", "2", "5">>
CatSports == <<"S", "p", "o", "r", "t", "s">>
CatGolf == <<"P", "G", "A", " ", "T", "o", "u", "r", " ">>

\* What the markets endpoint holds for a ticker, and the events endpoint
\* for an event ticker.
MarketDB ==
    (T_NFL :> [ticker |-> T_NFL, category |-> CatSports, event_ticker |-> E_NFL])
    @@ (T_GOLF :> [ticker |-> T_GOLF, category |-> <<>>, event_ticker |-> E_GOLF])

EventDB ==
    (E_NFL :> [ticker |-> E_NFL, category |-> CatSports])
    @@ (E_GOLF :> [ticker |-> E_GOLF, category |-> CatGolf])

\* A trade as the aggregation reads it: its ticker (<<>> when it has none),
\* the local day its timestamp falls on (0 when no timestamp field parses)
\* and its count.
PipelineTrades ==
    { [ticker |-> tk, day |-> d, count |-> IF tk = T_NFL THEN 2 ELSE 1] :
        tk \in {T_NFL, T_GOLF}, d \in Window }
AggTrades ==
    [ticker : {T_NFL, T_GOLF}, day : Window, count : {1, 2}]
    \cup [ticker : {<<>>}, day : Window, count : {1}]
    \cup [ticker : {T_NFL}, day : {0}, count : {1}]

SeqsUpTo(S, n) == UNION { [1..k -> S] : k \in 0..n }

HttpStatuses == {200, 429, 500}
Cursors == {None, <<>>, <<"c", "1">>}

(***************************************************************************)
(* Helpers standing for Python built-ins                                   *)
(***************************************************************************)

RECURSIVE SumOver(_, _)
SumOver(f, S) ==
    IF S = {} THEN 0
    ELSE LET x == CHOOSE y \in S : TRUE
         IN f[x] + SumOver(f, S \ {x})

\* dict.get(key, default)
Get(f, k, default) == IF k \in DOMAIN f THEN f[k] ELSE default

\* sorted() of a set of day keys
RECURSIVE Sorted(_)
Sorted(S) ==
    IF S = {} THEN <<>>
    ELSE LET m == CHOOSE x \in S : \A y \in S : x <= y
         IN <<m>> \o Sorted(S \ {m})

\* str.strip()
RECURSIVE Strip(_)
Strip(s) ==
    IF s = <<>> THEN s
    ELSE IF Head(s) = " " THEN Strip(Tail(s))
    ELSE IF s[Len(s)] = " " THEN Strip(SubSeq(s, 1, Len(s) - 1))
    ELSE s

RECURSIVE Pow2(_)
Pow2(n) == IF n = 0 THEN 1 ELSE 2 * Pow2(n - 1)

(***************************************************************************)
(* main: bucketing the trades by local day (lines 397-429)                 *)
(***************************************************************************)

EmptyBuckets == [totals |-> <<>>, tickers |-> <<>>, unique |-> {}]

\* A plausible slip: the per-ticker quantity assigned instead of accumulated.
BucketTradeOverwrite(acc, t) ==
    IF t.day = 0 THEN acc
    ELSE LET totals == (t.day :> (Get(acc.totals, t.day, 0) + t.count)) @@ acc.totals
         IN IF t.ticker = <<>>
            THEN [acc EXCEPT !.totals = totals]
            ELSE LET dmap == Get(acc.tickers, t.day, <<>>)
                     dmap2 == (t.ticker :> t.count) @@ dmap
                 IN [totals |-> totals,
                     tickers |-> (t.day :> dmap2) @@ acc.tickers,
                     unique |-> acc.unique \cup {t.ticker}]

\* One iteration of the loop over the trades.
BucketTrade(acc, t) ==
    IF t.day = 0 THEN acc
    ELSE LET totals == (t.day :> (Get(acc.totals, t.day, 0) + t.count)) @@ acc.totals
         IN IF t.ticker = <<>>
            THEN [acc EXCEPT !.totals = totals]
            ELSE LET dmap == Get(acc.tickers, t.day, <<>>)
                     dmap2 == (t.ticker :> (Get(dmap, t.ticker, 0) + t.count)) @@ dmap
                 IN [totals |-> totals,
                     tickers |-> (t.day :> dmap2) @@ acc.tickers,
                     unique |-> acc.unique \cup {t.ticker}]

RECURSIVE BucketLoop(_, _, _)
BucketLoop(acc, trs, i) ==
    IF i > Len(trs) THEN acc
    ELSE BucketLoop(BucketTrade(acc, trs[i]), trs, i + 1)

\* The loop, then every day of the window seeded with zero totals.
Bucketed(trs) ==
    LET acc == BucketLoop(EmptyBuckets, trs, 1)
    IN [totals |-> acc.totals @@ [d \in Window |-> 0],
        tickers |-> acc.tickers @@ [d \in Window |-> <<>>],
        unique |-> acc.unique]

(***************************************************************************)
(* main: the category of each market, and the rows (lines 434-474)         *)
(***************************************************************************)

BlanksEvt(mm) ==
    { mm[tk].event_ticker :
        tk \in { k \in DOMAIN mm : mm[k].category = <<>> /\ mm[k].event_ticker # <<>> } }

FinalCategory(mm, ecm) ==
    [tk \in DOMAIN mm |->
        LET cat == Strip(mm[tk].category)
            evt == mm[tk].event_ticker
            ev_cat == IF evt # <<>> THEN Strip(Get(ecm, evt, <<>>)) ELSE <<>>
        IN IF cat # <<>> THEN <<cat, "market", evt>>
           ELSE IF ev_cat # <<>> THEN <<ev_cat, "event", evt>>
           ELSE <<<<>>, "none", evt>>]

\* A plausible slip: a ticker without metadata left unclassified.
SportOfTickerSkipUnknown(tk, fc) ==
    IF tk \in DOMAIN fc THEN classify_sport(tk, fc[tk][1], fc[tk][3]) ELSE ""

\* The sport of one ticker of a day, as the row loop resolves it.
SportOfTicker(tk, fc) ==
    LET info == Get(fc, tk, <<<<>>, "none", <<>>>>)
    IN classify_sport(tk, info[1], info[3])

\* round(sports_total / total * 100.0, 4), in ten-thousandths of a percent.
SportsPct(sports_total, total) ==
    IF total # 0 THEN (2 * 1000000 * sports_total + total) \div (2 * total) ELSE 0

RowFor(d, totals, per_day, fc) ==
    LET per_ticker == per_day[d]
        sport == [tk \in DOMAIN per_ticker |-> SportOfTicker(tk, fc)]
        sport_volumes ==
            [s \in SportTags |->
                SumOver(per_ticker, { tk \in DOMAIN per_ticker : sport[tk] = s })]
        sports_total ==
            SumOver(per_ticker, { tk \in DOMAIN per_ticker : sport[tk] # "" })
    IN [date |-> d,
        total_volume |-> totals[d],
        sports_volume |-> sports_total,
        sports_pct |-> SportsPct(sports_total, totals[d]),
        volumes |-> sport_volumes]

ComputeRows(totals, per_day, fc) ==
    LET days == Sorted(DOMAIN totals)
    IN [i \in 1..Len(days) |-> RowFor(days[i], totals, per_day, fc)]

(***************************************************************************)
(* State                                                                   *)
(***************************************************************************)

VARIABLES
    pc,              \* where main() stands
    exit_code,       \* -1 while running, then the process's exit code
    run,             \* the number of the current run
    call,            \* the current call of _api_request_with_retry
    cursor,          \* _get_all_trades: the cursor variable
    trades,          \* _get_all_trades: the trades list
    sent,            \* history: the cursor parameter of each call, None if absent
    got,             \* history: the cursor of each page received
    pages,           \* history: the trade list of each page received
    totals_by_day,
    ticker_by_day,
    unique_tickers,
    todo,            \* the identifiers the running lookup loop has yet to visit
    item,            \* the identifier the lookup loop is at, None between items
    retrying,        \* the lookup is inside its rate-limit handler
    markets_map,
    event_cat_map,
    blanks_evt,
    calls,           \* history: calls of the retrying client made per identifier
    long_waits,      \* history: the identifiers the lookup slept 10 s for
    gave_up,         \* history: identifiers whose call ran out of attempts
    failed_http,     \* history: identifiers whose call raised an HTTP error
    final_category,
    rows,
    client,          \* the sink client: "none", "created" or "failed"
    row_idx,         \* the upsert loop's position in rows
    store,           \* the destination table, a list of rows
    upsert_log,      \* history: the date and outcome of each upsert issued
    prev,            \* what the previous run saw and computed
    cl_ticker, cl_category, cl_event, cl_sport   \* classify_sport on its own

clvars == <<cl_ticker, cl_category, cl_event, cl_sport>>

fetchvars == <<cursor, trades, sent, got, pages>>

bucketvars == <<totals_by_day, ticker_by_day, unique_tickers>>

lookupvars ==
    <<todo, item, retrying, markets_map, event_cat_map, blanks_evt,
      calls, long_waits, gave_up, failed_http>>

sinkvars == <<final_category, rows, client, row_idx, store, upsert_log>>

vars ==
    <<pc, exit_code, run, call, fetchvars, bucketvars, lookupvars, sinkvars,
      prev, clvars>>

\* No previous run.
NoPrev ==
    [seen |-> FALSE, trades |-> <<>>, gave_up |-> {}, failed_http |-> {},
     rows |-> <<>>]

NewCall == [attempt |-> 0, slept |-> <<>>, responses |-> <<>>, result |-> "pending"]

\* The locals of main() and its callees before the run sets them.
RunLocals ==
    /\ call = NewCall
    /\ cursor = None /\ trades = <<>> /\ sent = <<>> /\ got = <<>> /\ pages = <<>>
    /\ totals_by_day = <<>> /\ ticker_by_day = <<>> /\ unique_tickers = {}
    /\ todo = {} /\ item = None /\ retrying = FALSE
    /\ markets_map = <<>> /\ event_cat_map = <<>> /\ blanks_evt = {}
    /\ calls = <<>> /\ long_waits = {} /\ gave_up = {} /\ failed_http = {}
    /\ final_category = <<>> /\ rows = <<>> /\ client = "none" /\ row_idx = 1
    /\ upsert_log = <<>>

ClassifyIdle ==
    /\ cl_ticker = <<>> /\ cl_category = <<>> /\ cl_event = <<>> /\ cl_sport = "idle"

(***************************************************************************)
(* classify_sport on its own                                               *)
(***************************************************************************)

Words ==
    { <<"K", "X">>, <<"N", "F", "L">>, <<"m", "l", "b">>, <<"W", "N", "B", "A">>,
      <<"n", "b", "a">>, <<"N", "H", "L">>, <<"e", "p", "l">>, <<"p", "g", "a">>,
      <<"f", "1">>, <<"a", "t", "p">>, <<"n", "c", "a", "a", "b">>,
      <<"n", "c", "a", "a", "w">>, <<"n", "c", "a", "a", "f">>, <<"u", "f", "c">> }

MetaWords == { <<"K", "X">>, <<"W", "N", "B", "A">>, <<"n", "b", "a">>, <<"P", "G", "A">> }

RECURSIVE Concat(_)
Concat(ws) == IF ws = <<>> THEN <<>> ELSE Head(ws) \o Concat(Tail(ws))

TickerTexts == { Concat(ws) : ws \in SeqsUpTo(Words, MaxWords) }
MetaTexts == {<<>>} \cup MetaWords

ClassifyInit ==
    /\ cl_ticker \in TickerTexts
    /\ cl_category \in MetaTexts
    /\ cl_event \in MetaTexts
    /\ cl_sport = "pending"
    /\ pc = "classify" /\ exit_code = -1 /\ run = 1 /\ store = <<>> /\ prev = NoPrev
    /\ RunLocals

Classify ==
    /\ pc = "classify"
    /\ cl_sport = "pending"
    /\ cl_sport' = classify_sport(cl_ticker, cl_category, cl_event)
    /\ UNCHANGED <<pc, exit_code, run, call, fetchvars, bucketvars, lookupvars,
                   sinkvars, prev, cl_ticker, cl_category, cl_event>>

ClassifyNext == Classify

ClassifySpec == ClassifyInit /\ [][ClassifyNext]_vars

(***************************************************************************)
(* The aggregation on its own: bucketing, categories and rows              *)
(***************************************************************************)

AggMetaRecords ==
    { [category |-> <<>>, event_ticker |-> E_GOLF],
      [category |-> CatGolf, event_ticker |-> <<>>] }

PartialMaps(K, V) == UNION { [D -> V] : D \in SUBSET K }

AggInit ==
    /\ pc = "aggregate_only" /\ exit_code = -1 /\ run = 1 /\ prev = NoPrev
    /\ call = NewCall
    /\ cursor = None /\ sent = <<>> /\ got = <<>> /\ pages = <<>>
    /\ trades \in SeqsUpTo(AggTrades, MaxTrades)
    /\ totals_by_day = <<>> /\ ticker_by_day = <<>> /\ unique_tickers = {}
    /\ todo = {} /\ item = None /\ retrying = FALSE
    /\ markets_map \in PartialMaps({T_NFL, T_GOLF}, AggMetaRecords)
    /\ event_cat_map \in PartialMaps({E_GOLF}, {CatGolf})
    /\ blanks_evt = {}
    /\ calls = <<>> /\ long_waits = {} /\ gave_up = {} /\ failed_http = {}
    /\ final_category = <<>> /\ rows = <<>> /\ client = "none" /\ row_idx = 1
    /\ store = <<>> /\ upsert_log = <<>>
    /\ ClassifyIdle

AggBucket ==
    /\ pc = "aggregate_only"
    /\ LET b == Bucketed(trades)
       IN /\ totals_by_day' = b.totals
          /\ ticker_by_day' = b.tickers
          /\ unique_tickers' = b.unique
    /\ pc' = "aggregate_rows"
    /\ UNCHANGED <<exit_code, run, call, fetchvars, lookupvars, sinkvars, prev, clvars>>

AggRows ==
    /\ pc = "aggregate_rows"
    /\ final_category' = FinalCategory(markets_map, event_cat_map)
    /\ rows' = ComputeRows(totals_by_day, ticker_by_day, final_category')
    /\ pc' = "aggregate_done"
    /\ UNCHANGED <<exit_code, run, call, fetchvars, bucketvars, lookupvars,
                   client, row_idx, store, upsert_log, prev, clvars>>

AggNext == AggBucket \/ AggRows

AggSpec == AggInit /\ [][AggNext]_vars

(***************************************************************************)
(* _api_request_with_retry (lines 110-135)                                 *)
(***************************************************************************)

\* Response.raise_for_status(): an HTTPError for a 4xx or 5xx status.
RaisesForStatus(status) == status >= 400 /\ status < 600

\* A plausible slip: a backoff that grows linearly.
ApiResultLinearBackoff(status, attempt, max_retries) ==
    IF status = 429
    THEN [kind |-> IF attempt + 1 < max_retries THEN "retry" ELSE "raise",
          exc |-> [type |-> "Exception", status |-> 0],
          waits |-> <<RETRY_BASE_DELAY * (attempt + 1)>>]
    ELSE IF RaisesForStatus(status)
    THEN [kind |-> "raise",
          exc |-> [type |-> "HTTPError", status |-> status],
          waits |-> <<>>]
    ELSE [kind |-> "return",
          exc |-> [type |-> "none", status |-> status],
          waits |-> <<>>]

\* A plausible slip: every error status backed off and retried like a 429.
ApiResultRetryAnyError(status, attempt, max_retries) ==
    IF status = 429 \/ RaisesForStatus(status)
    THEN [kind |-> IF attempt + 1 < max_retries THEN "retry" ELSE "raise",
          exc |-> [type |-> "Exception", status |-> 0],
          waits |-> <<RETRY_BASE_DELAY * Pow2(attempt)>>]
    ELSE [kind |-> "return",
          exc |-> [type |-> "none", status |-> status],
          waits |-> <<>>]

\* One pass of the loop body for the response to attempt number `attempt`:
\* what the call does next, the exception it raises if it raises, and the
\* waits it sleeps first. A 429 on the last attempt is slept for too, after
\* which the loop ends and the call raises "Max retries exceeded".
ApiResult(status, attempt, max_retries) ==
    IF status = 429
    THEN [kind |-> IF attempt + 1 < max_retries THEN "retry" ELSE "raise",
          exc |-> [type |-> "Exception", status |-> 0],
          waits |-> <<RETRY_BASE_DELAY * Pow2(attempt)>>]
    ELSE IF RaisesForStatus(status)
    THEN IF status = 429 /\ attempt < max_retries - 1
         THEN [kind |-> "retry",
               exc |-> [type |-> "HTTPError", status |-> status],
               waits |-> <<RETRY_BASE_DELAY * Pow2(attempt)>>]
         ELSE [kind |-> "raise",
               exc |-> [type |-> "HTTPError", status |-> status],
               waits |-> <<>>]
    ELSE [kind |-> "return",
          exc |-> [type |-> "none", status |-> status],
          waits |-> <<>>]

\* The call in progress, or a fresh one when the last call has ended.
StartsCall == call.result # "pending" \/ call.attempt = 0
CurrentCall == IF StartsCall THEN NewCall ELSE call

CallAfter(c, status) ==
    LET r == ApiResult(status, c.attempt, MAX_RETRIES)
    IN [attempt |-> c.attempt + 1,
        slept |-> c.slept \o r.waits,
        responses |-> Append(c.responses, status),
        result |-> IF r.kind = "retry" THEN "pending"
                   ELSE IF r.kind = "return" THEN "returned"
                   ELSE IF r.exc.type = "HTTPError" THEN "http_error"
                   ELSE "exhausted"]

(***************************************************************************)
(* The environment: the API's answers                                      *)
(***************************************************************************)

\* `if cursor:`
Truthy(c) == c # None /\ c # <<>>

Batches == SeqsUpTo(PipelineTrades, MaxTrades)

\* A rerun is served what the previous run was served: the same trades (in
\* one page), and per identifier the same final answer.
ReplayStatus(it) ==
    IF it \in prev.gave_up THEN 429
    ELSE IF it \in prev.failed_http THEN 500
    ELSE 200

ServerAnswers(it, status) == ~prev.seen \/ status = ReplayStatus(it)

ServesPage(status, batch, cur) ==
    IF ~prev.seen
    THEN /\ Len(got) + 1 >= MaxPages => ~Truthy(cur)
         /\ Len(trades) + Len(batch) <= MaxTrades
    ELSE /\ status = 200
         /\ batch = prev.trades
         /\ cur = None

(***************************************************************************)
(* main, up to the trade fetch (lines 368-395)                             *)
(***************************************************************************)

Exit(code) == pc' = "done" /\ exit_code' = code

Init ==
    /\ pc = "main" /\ exit_code = -1 /\ run = 1 /\ store = <<>> /\ prev = NoPrev
    /\ RunLocals
    /\ ClassifyIdle

\* The configuration check and the private key: a missing variable exits 1,
\* a key no format parses raises, which the entry point turns into exit 1.
Main ==
    /\ pc = "main"
    /\ \E cfg \in {"ok", "missing", "badkey"} :
        /\ prev.seen => cfg = "ok"
        /\ \/ cfg = "ok" /\ pc' = "fetch" /\ UNCHANGED exit_code
           \/ cfg # "ok" /\ Exit(1)
    /\ UNCHANGED <<run, call, fetchvars, bucketvars, lookupvars, sinkvars, prev, clvars>>

(***************************************************************************)
(* _get_all_trades (lines 179-212)                                         *)
(***************************************************************************)

\* The cursor parameter of a request: `if cursor: params["cursor"] = cursor`.
CursorParam(c) == IF Truthy(c) THEN c ELSE None

\* A plausible slip: the loop ended by an empty page instead.
LoopsAgainUntilEmptyPage(cur, batch) == batch # <<>>

\* `if not cursor: break`, after a page of trades `batch` with cursor `cur`.
LoopsAgain(cur, batch) == Truthy(cur)

\* One request of the fetch loop and what follows it up to the next request.
FetchRequest ==
    /\ pc = "fetch"
    /\ sent' = IF StartsCall
               THEN Append(sent, CursorParam(cursor))
               ELSE sent
    /\ \E status \in HttpStatuses :
        LET c == CallAfter(CurrentCall, status)
        IN /\ call' = c
           /\ \/ /\ c.result = "pending"
                 /\ ~prev.seen
                 /\ UNCHANGED <<pc, exit_code, cursor, trades, got, pages>>
              \/ /\ c.result \in {"http_error", "exhausted"}
                 /\ ~prev.seen
                 /\ Exit(1)
                 /\ UNCHANGED <<cursor, trades, got, pages>>
              \/ /\ c.result = "returned"
                 /\ \E batch \in Batches, cur \in Cursors :
                     /\ ServesPage(status, batch, cur)
                     /\ trades' = trades \o batch
                     /\ cursor' = cur
                     /\ got' = Append(got, cur)
                     /\ pages' = Append(pages, batch)
                     /\ pc' = IF LoopsAgain(cur, batch) THEN "fetch" ELSE "bucket"
                 /\ UNCHANGED exit_code
    /\ UNCHANGED <<run, bucketvars, lookupvars, sinkvars, prev, clvars>>

(***************************************************************************)
(* main: bucketing, then the lookups (lines 397-435)                       *)
(***************************************************************************)

Bucket ==
    /\ pc = "bucket"
    /\ LET b == Bucketed(trades)
       IN /\ totals_by_day' = b.totals
          /\ ticker_by_day' = b.tickers
          /\ unique_tickers' = b.unique
          /\ todo' = b.unique
          /\ pc' = IF b.unique = {} THEN "aggregate" ELSE "markets"
    /\ cursor' = None /\ sent' = <<>> /\ got' = <<>> /\ pages' = <<>>
    /\ UNCHANGED <<exit_code, run, call, trades, item, retrying, markets_map,
                   event_cat_map, blanks_evt, calls, long_waits, gave_up,
                   failed_http, sinkvars, prev, clvars>>

(***************************************************************************)
(* _lookup_markets (lines 215-273), _lookup_event_categories (276-333)     *)
(***************************************************************************)

\* The mapping after the loop over the markets of a response.
StoreMarkets(out, markets) ==
    LET kept == { i \in 1..Len(markets) : markets[i].ticker # <<>> }
    IN [tkr \in { markets[i].ticker : i \in kept } |->
           LET m == markets[CHOOSE i \in kept : markets[i].ticker = tkr]
           IN [category |-> Strip(m.category),
               event_ticker |-> Strip(m.event_ticker)]] @@ out

\* The mapping after the loop over the events of a response.
StoreEvents(out, events) ==
    LET kept == { i \in 1..Len(events) : Strip(events[i].ticker) # <<>> }
    IN [evt \in { Strip(events[i].ticker) : i \in kept } |->
           LET e == events[CHOOSE i \in kept : Strip(events[i].ticker) = evt]
           IN Strip(e.category)] @@ out

\* The except clauses around the call: an HTTPError whose status is 429 is
\* answered by a longer wait and one more call (unless this already is that
\* call, whose every exception is logged); any other exception is logged
\* and the identifier left out.
LookupHandler(exc, in_retry) ==
    IF ~in_retry /\ exc.type = "HTTPError" /\ exc.status = 429
    THEN "wait_and_call_again"
    ELSE "omit"

\* Where main() goes when the market lookup has returned mm.
AfterMarkets(mm) ==
    /\ blanks_evt' = BlanksEvt(mm)
    /\ todo' = BlanksEvt(mm)
    /\ pc' = IF BlanksEvt(mm) = {} THEN "aggregate" ELSE "events"

\* One request of a lookup loop and what follows it up to the next request.
LookupRequest(phase) ==
    /\ pc = phase
    /\ \E it \in (IF item = None THEN todo ELSE {item}), status \in HttpStatuses :
        LET r == ApiResult(status, CurrentCall.attempt, MAX_RETRIES)
            c == CallAfter(CurrentCall, status)
            rest == todo \ {it}
            handling == IF r.kind = "raise" THEN LookupHandler(r.exc, retrying) ELSE "none"
            out == IF r.kind # "return" THEN IF phase = "markets" THEN markets_map ELSE event_cat_map
                   ELSE IF phase = "markets" THEN StoreMarkets(markets_map, <<MarketDB[it]>>)
                   ELSE StoreEvents(event_cat_map, <<EventDB[it]>>)
        IN /\ ServerAnswers(it, status)
           /\ call' = c
           /\ calls' = IF StartsCall THEN (it :> (Get(calls, it, 0) + 1)) @@ calls ELSE calls
           /\ gave_up' = IF c.result = "exhausted" THEN gave_up \cup {it} ELSE gave_up
           /\ failed_http' = IF c.result = "http_error" THEN failed_http \cup {it} ELSE failed_http
           /\ long_waits' = IF handling = "wait_and_call_again" THEN long_waits \cup {it} ELSE long_waits
           /\ retrying' = (handling = "wait_and_call_again")
           /\ markets_map' = IF phase = "markets" THEN out ELSE markets_map
           /\ event_cat_map' = IF phase = "events" THEN out ELSE event_cat_map
           /\ \/ /\ r.kind = "retry" \/ handling = "wait_and_call_again"
                 /\ item' = it /\ todo' = rest
                 /\ UNCHANGED <<pc, exit_code, blanks_evt>>
              \/ /\ r.kind = "return" \/ handling = "omit"
                 /\ rest # {}
                 /\ item' = None /\ todo' = rest
                 /\ UNCHANGED <<pc, exit_code, blanks_evt>>
              \/ /\ r.kind = "return" \/ handling = "omit"
                 /\ rest = {}
                 /\ item' = None
                 /\ IF phase = "markets"
                    THEN AfterMarkets(out)
                    ELSE pc' = "aggregate" /\ todo' = rest /\ UNCHANGED blanks_evt
                 /\ UNCHANGED exit_code
    /\ UNCHANGED <<run, fetchvars, bucketvars, sinkvars, prev, clvars>>

MarketRequest == LookupRequest("markets")

EventRequest == LookupRequest("events")

(***************************************************************************)
(* main: categories, rows, the sink (lines 437-487)                        *)
(***************************************************************************)

\* The rows, then create_client(): an exception of it reaches the entry point.
Aggregate ==
    /\ pc = "aggregate"
    /\ final_category' = FinalCategory(markets_map, event_cat_map)
    /\ rows' = ComputeRows(totals_by_day, ticker_by_day, final_category')
    /\ \/ client' = "created" /\ pc' = "upsert" /\ UNCHANGED exit_code
       \/ client' = "failed" /\ Exit(1)
    /\ call' = NewCall
    /\ UNCHANGED <<run, fetchvars, bucketvars, lookupvars, row_idx, store,
                   upsert_log, prev, clvars>>

\* The destination table's upsert: the row replaces the row of its date, or
\* is added when the table has none.
UpsertInto(table, row) ==
    IF \E i \in 1..Len(table) : table[i].date = row.date
    THEN [i \in 1..Len(table) |-> IF table[i].date = row.date THEN row ELSE table[i]]
    ELSE Append(table, row)

\* A plausible slip: .insert(row) in place of .upsert(row).
TableWriteInsert(table, row) == Append(table, row)

\* supabase.table("daily_volumes").upsert(row).execute(), when it succeeds.
TableWrite(table, row) == UpsertInto(table, row)

\* A plausible slip: a failed upsert ends the loop.
AfterUpsertStopOnError(i, ok) == IF i = Len(rows) \/ ~ok THEN "exit" ELSE "next"

\* Where the loop over the rows goes after the row at index i, upserted or
\* failed and logged.
AfterUpsert(i, ok) == IF i = Len(rows) THEN "exit" ELSE "next"

\* One iteration of the upsert loop; after the last, main returns.
UpsertRow ==
    /\ pc = "upsert"
    /\ \E ok \in BOOLEAN :
        /\ store' = IF ok THEN TableWrite(store, rows[row_idx]) ELSE store
        /\ upsert_log' = Append(upsert_log, [date |-> rows[row_idx].date, ok |-> ok])
        /\ row_idx' = row_idx + 1
        /\ \/ AfterUpsert(row_idx, ok) = "next" /\ UNCHANGED <<pc, exit_code>>
           \/ AfterUpsert(row_idx, ok) = "exit" /\ Exit(0)
    /\ UNCHANGED <<run, call, fetchvars, bucketvars, lookupvars, final_category,
                   rows, client, prev, clvars>>

Next ==
    \/ Main
    \/ FetchRequest
    \/ Bucket
    \/ MarketRequest
    \/ EventRequest
    \/ Aggregate
    \/ UpsertRow

Spec == Init /\ [][Next]_vars

\* The run as a single thread that keeps going until it exits.
FairSpec == Spec /\ WF_vars(Next)

(***************************************************************************)
(* A second run over the same snapshot                                     *)
(***************************************************************************)

Rerun ==
    /\ pc = "done" /\ exit_code = 0 /\ run = 1
    /\ prev' = [seen |-> TRUE, trades |-> trades, gave_up |-> gave_up,
                failed_http |-> failed_http, rows |-> rows]
    /\ run' = run + 1
    /\ pc' = "main" /\ exit_code' = -1
    /\ call' = NewCall
    /\ cursor' = None /\ trades' = <<>> /\ sent' = <<>> /\ got' = <<>> /\ pages' = <<>>
    /\ totals_by_day' = <<>> /\ ticker_by_day' = <<>> /\ unique_tickers' = {}
    /\ todo' = {} /\ item' = None /\ retrying' = FALSE
    /\ markets_map' = <<>> /\ event_cat_map' = <<>> /\ blanks_evt' = {}
    /\ calls' = <<>> /\ long_waits' = {} /\ gave_up' = {} /\ failed_http' = {}
    /\ final_category' = <<>> /\ rows' = <<>> /\ client' = "none" /\ row_idx' = 1
    /\ upsert_log' = <<>>
    /\ UNCHANGED <<store, clvars>>

RerunNext == Next \/ Rerun

RerunSpec == Init /\ [][RerunNext]_vars

(***************************************************************************)
(* Properties of the retrying client                                       *)
(***************************************************************************)

RateLimitedCount(c) == Cardinality({ a \in 1..Len(c.responses) : c.responses[a] = 429 })

StrictlyIncreasing(q) == \A i \in 1..(Len(q) - 1) : q[i] < q[i + 1]

\* C1: a call that has received three consecutive 429 responses is still
\* awaiting the next response (so that a success that follows is returned
\* and nothing is raised), and the waits it slept are strictly increasing.
C1_ThreeRateLimitsThenSuccess ==
    call.responses = <<429, 429, 429>> =>
        /\ call.result = "pending"
        /\ StrictlyIncreasing(call.slept)

\* C2: the 429 response to attempt a (from 0) is followed by a sleep of
\* RETRY_BASE_DELAY * 2^a and, while attempts remain, by a retry; a call
\* issues at most MAX_RETRIES requests; when all of them are rate-limited
\* the call fails with the retry-exhausted error, and a call never returns
\* a rate-limited response.
C2_Backoff ==
    LET n == Len(call.responses)
    IN /\ n <= MAX_RETRIES
       /\ call.attempt = n
       /\ Len(call.slept) = RateLimitedCount(call)
       /\ \A a \in 1..n :
            call.responses[a] = 429 =>
                /\ a <= Len(call.slept)
                /\ call.slept[a] = RETRY_BASE_DELAY * 2^(a - 1)
                /\ a < MAX_RETRIES => (a < n \/ call.result = "pending")
       /\ \A a \in 1..(n - 1) : call.responses[a] = 429
       /\ (n = MAX_RETRIES /\ RateLimitedCount(call) = n) => call.result = "exhausted"
       /\ call.result = "exhausted" => (n = MAX_RETRIES /\ RateLimitedCount(call) = n)
       /\ call.result = "returned" => (n >= 1 /\ call.responses[n] = 200)
       /\ call.result = "pending" => n < MAX_RETRIES

C2_Witness ==
    /\ call.result = "exhausted"
    /\ call.slept = <<RETRY_BASE_DELAY, 2 * RETRY_BASE_DELAY, 4 * RETRY_BASE_DELAY>>

(***************************************************************************)
(* Properties of the trade fetch                                           *)
(***************************************************************************)

\* C3 (state part): the first request carries no cursor and every later one
\* the cursor of the page before it; no request follows a page without a
\* cursor, whatever that page holds; the trades are the pages received,
\* concatenated in order.
C3_Pages ==
    pc \in {"fetch", "bucket"} =>
        /\ Len(pages) = Len(got)
        /\ trades = Concat(pages)
        /\ Len(sent) \in {Len(got), Len(got) + 1}
        /\ Len(sent) >= 1 => sent[1] = None
        /\ \A i \in 2..Len(sent) : sent[i] = got[i - 1] /\ Truthy(got[i - 1])
        /\ pc = "fetch" => \A i \in 1..Len(got) : Truthy(got[i])
        /\ pc = "bucket" =>
            /\ Len(got) >= 1
            /\ Len(sent) = Len(got)
            /\ ~Truthy(got[Len(got)])
            /\ \A i \in 1..(Len(got) - 1) : Truthy(got[i])

\* C3: the state part always holds, and a fetch under way ends (the
\* endpoint serving a page without a cursor after at most MaxPages pages).
C3_Fetch == [](C3_Pages) /\ ((pc = "fetch") ~> (pc # "fetch"))

\* Two pages were received, the first one empty and followed by its cursor.
C3_Witness ==
    /\ pc = "bucket"
    /\ Len(got) = 2
    /\ pages[1] = <<>>
    /\ sent = <<None, got[1]>>
    /\ got[2] = <<>>
    /\ Len(trades) >= 1

\* C9: an error status other than 429 ends its call at once (it is the
\* call's last response and was not slept for); when that happens in the
\* trade fetch the run exits 1 with no lookup call and no upsert issued;
\* and every run that exits 1 has issued no upsert.
C9_FetchErrorAborts ==
    /\ \A a \in 1..Len(call.responses) :
         (call.responses[a] # 429 /\ call.responses[a] # 200) =>
            /\ a = Len(call.responses)
            /\ call.result = "http_error"
            /\ Len(call.slept) = a - 1
    /\ (pc \in {"fetch", "done"} /\ call.result = "http_error" /\ calls = <<>>) =>
            /\ pc = "done" /\ exit_code = 1
            /\ totals_by_day = <<>> /\ rows = <<>> /\ client = "none"
            /\ upsert_log = <<>> /\ store = <<>>
    /\ exit_code = 1 => upsert_log = <<>> /\ store = <<>>

\* The second page request of the fetch was answered by an error status.
C9_Witness ==
    /\ pc = "done" /\ exit_code = 1
    /\ call.result = "http_error"
    /\ call.responses = <<500>>
    /\ Len(got) = 1 /\ Len(sent) = 2

(***************************************************************************)
(* Properties of the lookups and of the sink                               *)
(***************************************************************************)

\* The lookup loop has left identifier `it` behind.
LookedUp(it) == it \in DOMAIN calls /\ item # it

\* C4: an identifier whose call ran out of attempts on 429 responses is
\* waited a longer fixed delay for and called exactly once more before it
\* is left out.
C4_ExtraRetryAfterRateLimit ==
    \A it \in gave_up : LookedUp(it) => (it \in long_waits /\ calls[it] = 2)

RowsComputed == pc \in {"upsert", "done"} /\ client = "created"

FailedTickers == failed_http \cap unique_tickers

\* The quantity a row's volume fields hold for sport s when the tickers of
\* `plain` are classified by their text alone, those of `dropped` not at all.
VolumeExpected(d, s, plain, dropped) ==
    LET per_ticker == ticker_by_day[d]
    IN SumOver(per_ticker,
               { tk \in DOMAIN per_ticker \ dropped :
                   IF tk \in plain
                   THEN ClassifyTests(tk) = s
                   ELSE classify_sport(tk, Get(final_category, tk, <<<<>>, "none", <<>>>>)[1],
                                       Get(final_category, tk, <<<<>>, "none", <<>>>>)[3]) = s })

\* C5: a ticker whose market lookup failed with an HTTP error is absent
\* from the metadata mapping, and whatever its text its quantities count
\* in total_volume but in no per-sport volume and not in sports_volume.
C5_FailedLookupNoSport ==
    RowsComputed =>
        /\ \A tk \in FailedTickers : tk \notin DOMAIN markets_map
        /\ \A i \in 1..Len(rows) :
            /\ rows[i].total_volume >= SumOver(ticker_by_day[rows[i].date],
                                               FailedTickers \cap DOMAIN ticker_by_day[rows[i].date])
            /\ \A s \in SportTags :
                rows[i].volumes[s] = VolumeExpected(rows[i].date, s, {}, FailedTickers)
            /\ rows[i].sports_volume =
                SumOver([s \in SportTags |-> VolumeExpected(rows[i].date, s, {}, FailedTickers)],
                        SportTags)

\* C5 as amended: such a ticker is absent from the metadata mapping and is
\* classified by its ticker text alone; its quantities count in
\* total_volume, in the volume of the sport its text matches, and in no
\* per-sport volume nor in sports_volume when its text matches no rule.
C5_FailedLookupTickerTextOnly ==
    RowsComputed =>
        /\ \A tk \in FailedTickers : tk \notin DOMAIN markets_map
        /\ \A i \in 1..Len(rows) :
            /\ rows[i].total_volume >= SumOver(ticker_by_day[rows[i].date],
                                               FailedTickers \cap DOMAIN ticker_by_day[rows[i].date])
            /\ \A s \in SportTags :
                rows[i].volumes[s] = VolumeExpected(rows[i].date, s, FailedTickers, {})
            /\ rows[i].sports_volume =
                SumOver([s \in SportTags |-> VolumeExpected(rows[i].date, s, FailedTickers, {})],
                        SportTags)
            /\ \A tk \in FailedTickers \cap DOMAIN ticker_by_day[rows[i].date] :
                ClassifyTests(tk) = "" =>
                    rows[i].sports_volume <=
                        rows[i].total_volume - ticker_by_day[rows[i].date][tk]

\* Both lookups failed for tickers traded on the first day: the one whose
\* text names a sport is counted in it, the other in no sport.
C5_Witness ==
    /\ RowsComputed
    /\ FailedTickers = {T_NFL, T_GOLF}
    /\ rows[1].total_volume = 3
    /\ rows[1].volumes["nfl"] = 2
    /\ rows[1].sports_volume = 2

\* C10: after a successful fetch no failed lookup or upsert ends the run:
\* the lookups call for every identifier, each row is upserted exactly once
\* and in order whatever the outcome of the others, the run then exits 0,
\* and a run exits 1 only before any lookup or when the sink client cannot
\* be created.
C10_FailuresDoNotAbort ==
    /\ (pc \in {"aggregate", "upsert"} \/ (pc = "done" /\ client # "none")) =>
            /\ \A tk \in unique_tickers : Get(calls, tk, 0) >= 1
            /\ \A evt \in blanks_evt : Get(calls, evt, 0) >= 1
            /\ todo = {} /\ item = None
    /\ pc = "upsert" => (Len(upsert_log) = row_idx - 1 /\ row_idx <= Len(rows))
    /\ pc \in {"upsert", "done"} =>
            \A i \in 1..Len(upsert_log) : upsert_log[i].date = rows[i].date
    /\ (pc = "done" /\ client = "created") =>
            /\ exit_code = 0
            /\ Len(upsert_log) = Len(rows)
    /\ exit_code = 1 => (client = "failed" \/ (client = "none" /\ calls = <<>>))
    /\ (pc \in {"markets", "events"}) => exit_code = -1

\* A lookup failed, the first upsert failed, and the run still upserted the
\* other rows and exited 0.
C10_Witness ==
    /\ pc = "done" /\ exit_code = 0
    /\ failed_http # {} /\ gave_up # {}
    /\ Len(upsert_log) = NumDays
    /\ ~upsert_log[1].ok /\ upsert_log[NumDays].ok

(***************************************************************************)
(* Properties of the aggregation and of a rerun                            *)
(***************************************************************************)

Counts == [j \in 1..Len(trades) |-> trades[j].count]

\* The trades that fall on local day d.
TradesOn(d) == { j \in 1..Len(trades) : trades[j].day = d }

\* C7: in every row sports_volume <= total_volume and the per-sport volumes
\* add up to sports_volume; the volume of sport s is the sum of the counts
\* of the day's trades whose ticker classifies as s (so each trade counts
\* in at most one sport), total_volume the sum of the counts of all the
\* day's trades.
C7_Volumes ==
    pc = "aggregate_done" =>
        \A i \in 1..Len(rows) :
            LET r == rows[i]
            IN /\ r.sports_volume <= r.total_volume
               /\ SumOver(r.volumes, SportTags) = r.sports_volume
               /\ r.total_volume = SumOver(Counts, TradesOn(r.date))
               /\ \A s \in SportTags :
                    r.volumes[s] =
                        SumOver(Counts,
                                { j \in TradesOn(r.date) :
                                    /\ trades[j].ticker # <<>>
                                    /\ SportOfTicker(trades[j].ticker, final_category) = s })

\* Two trades of one ticker on one day, added up in its sport, beside a day
\* without trades.
C7_Witness ==
    /\ pc = "aggregate_done"
    /\ Len(trades) = 2
    /\ trades[1].ticker = T_NFL /\ trades[2].ticker = T_NFL
    /\ trades[1].day = 1 /\ trades[2].day = 1
    /\ rows[1].volumes["nfl"] = 3
    /\ rows[2].total_volume = 0

\* C8: over one snapshot and the same metadata answers the second run
\* computes the rows of the first, in the same order; the table never holds
\* two rows of one date; and after the second run every row the table holds
\* is the recomputed row of its date, each upserted row being held once.
C8_Idempotent ==
    /\ \A i, j \in 1..Len(store) : store[i].date = store[j].date => i = j
    /\ (run = 2 /\ RowsComputed) => rows = prev.rows
    /\ (run = 2 /\ pc = "done" /\ exit_code = 0) =>
        /\ \A k \in 1..Len(store) :
             \E i \in 1..Len(rows) : rows[i].date = store[k].date /\ rows[i] = store[k]
        /\ \A i \in 1..Len(rows) :
             (upsert_log[i].ok \/ \E k \in 1..Len(store) : store[k].date = rows[i].date) =>
                Cardinality({ k \in 1..Len(store) : store[k] = rows[i] }) = 1

\* The second run has overwritten every row of the first.
C8_Witness ==
    /\ run = 2 /\ pc = "done" /\ exit_code = 0
    /\ Len(store) = NumDays
    /\ \A i \in 1..Len(upsert_log) : upsert_log[i].ok
    /\ gave_up # {}
    /\ \E i \in 1..Len(rows) : rows[i].sports_volume > 0

(***************************************************************************)
(* Properties of classify_sport                                            *)
(***************************************************************************)

RuleRegex(tag) ==
    CASE tag = "nfl" -> NFL_REGEX
      [] tag = "mlb" -> MLB_REGEX
      [] tag = "wnba" -> WNBA_REGEX
      [] tag = "nba" -> NBA_REGEX
      [] tag = "nhl" -> NHL_REGEX
      [] tag = "soccer" -> SOCCER_REGEX
      [] tag = "golf" -> GOLF_REGEX
      [] tag = "motorsport" -> MOTORSPORT_REGEX
      [] tag = "tennis" -> TENNIS_REGEX
      [] tag = "ncaam" -> NCAAM_REGEX
      [] tag = "ncaaw" -> NCAAW_REGEX
      [] tag = "ncaaf" -> NCAAF_REGEX
      [] tag = "combat" -> COMBAT_REGEX

\* The order of the rules as section 4.5 enumerates them.
EnumeratedOrder ==
    <<"nfl", "mlb", "wnba", "nba", "nhl", "soccer", "golf", "motorsport",
      "tennis", "ncaam", "ncaaw", "ncaaf", "combat">>

\* The same order with the women's-basketball rule moved to the front.
WnbaFirstOrder ==
    <<"wnba", "nfl", "mlb", "nba", "nhl", "soccer", "golf", "motorsport",
      "tennis", "ncaam", "ncaaw", "ncaaf", "combat">>

Matching(order, field) ==
    { k \in 1..Len(order) : Search(RuleRegex(order[k]), field) }

\* The earliest rule of `order` matching the first field that any rule
\* matches; "" when no field matches a rule.
EarliestRule(order, fields) ==
    LET hit == { i \in 1..Len(fields) : Matching(order, fields[i]) # {} }
    IN IF hit = {} THEN ""
       ELSE LET f == CHOOSE i \in hit : \A j \in hit : i <= j
                m == Matching(order, fields[f])
            IN order[CHOOSE k \in m : \A l \in m : k <= l]

\* C6: the tag returned is the earliest matching rule, in the order
\* enumerated in section 4.5, of the first field that any rule matches, and
\* "no sport" exactly when no field matches any rule.
C6_EnumeratedOrder ==
    cl_sport # "pending" =>
        cl_sport = EarliestRule(EnumeratedOrder, <<cl_ticker, cl_category, cl_event>>)

\* C6 as amended: the same with the women's-basketball rule tested first,
\* before american-football and baseball, the other rules in the enumerated
\* order.
C6_WnbaFirstOrder ==
    cl_sport # "pending" =>
        cl_sport = EarliestRule(WnbaFirstOrder, <<cl_ticker, cl_category, cl_event>>)

\* A ticker matching the american-football and the women's-basketball rule,
\* classified while category and event ticker match other rules.
C6_Witness ==
    /\ cl_sport = "wnba"
    /\ Search(NFL_REGEX, cl_ticker)
    /\ ClassifyTests(cl_category) = "golf"
    /\ ClassifyTests(cl_event) = "nba"

====
